---------------------------- MODULE Spec2Model ----------------------------
(***************************************************************************)
(* Model of the Holographic Pass accumulator (package holographic_pass):   *)
(* the host-side Python classes of core.py, scopes.py and security.py and  *)
(* the native engine (holographic_core.RustAccumulator) they drive.        *)
(*                                                                         *)
(* The native engine is not part of the Python sources; its operations are *)
(* modelled from the written specification (section 4.1 and 4.3) and are   *)
(* marked "engine" below.  Everything else is translated from the Python.  *)
(*                                                                         *)
(* Python strings are modelled as sequences of one-character strings, so   *)
(* that formatting (str, hex) and parsing (int(s), int(s, 16)) are real    *)
(* conversions.  SHA-256 is modelled as a collision-free function: the     *)
(* hex digest of s is the string "#" followed by s.                        *)
(***************************************************************************)
EXTENDS Integers, Sequences, FiniteSets, TLC

(***************************************************************************)
(* Parameters of the model.                                                *)
(***************************************************************************)

\* CryptoContext.M: the modulus.  The engine generates a 2048-bit product of
\* two safe primes; the model uses the product of the safe primes 167 and 179.
M == 29893

\* CryptoContext.G
G == 4

\* CryptoContext.MAX_DEPTH (constructor argument max_depth)
MAX_DEPTH == 3

\* Engine ceiling on modular exponentiations per accumulator (MAX_OPS).
MAX_OPS == 14

\* Agent identities driven through the accumulators.
Agents == {<<"A">>, <<"B">>}

(***************************************************************************)
(* Strings and numbers.                                                    *)
(***************************************************************************)

\* The characters strings are made of; the sixteen digits come first.
Alphabet == <<"0", "1", "2", "3", "4", "5", "6", "7",
              "8", "9", "a", "b", "c", "d", "e", "f",
              "A", "B", "C", "S", "X", "Y", "Z", "_",
              "|", ":", ".", "{", "}", " ", "k", "N",
              "o", "n", "u", "l", "x", ",", "'", "\"", "#">>

HexChars == SubSeq(Alphabet, 1, 16)

\* The code of a character (its place in the alphabet, from 0).
CharCode(c) == (CHOOSE i \in 1..Len(Alphabet) : Alphabet[i] = c) - 1

\* The value of one digit character.
DigitValue(c) == CharCode(c)

RECURSIVE Format(_, _)
\* The digits of the natural number n in the given base, most significant first.
Format(n, base) ==
    IF n < base THEN <<HexChars[n + 1]>>
    ELSE Format(n \div base, base) \o <<HexChars[(n % base) + 1]>>

RECURSIVE Parse(_, _)
\* Python int(s, base) for a string of digits.
Parse(s, base) ==
    IF Len(s) = 0 THEN 0
    ELSE Parse(SubSeq(s, 1, Len(s) - 1), base) * base + DigitValue(s[Len(s)])

\* Python str(n) for a non-negative int.
Str(n) == Format(n, 10)

\* Python int(s).
ParseDecimal(s) == Parse(s, 10)

\* Python int(s, 16).
ParseHex(s) == Parse(s, 16)

\* hashlib.sha256(s.encode()).hexdigest(), collision-free.
Sha256(s) == <<"#">> \o s

\* "0" * 64, the genesis link.  No digest equals it.
GenesisHash == [i \in 1..64 |-> "0"]

\* int(hexdigest, 16) of the digest of the string s: a fixed integer per
\* input, standing for the 256-bit number.
RECURSIVE DigestInt(_)
DigestInt(s) ==
    IF Len(s) = 0 THEN 7
    ELSE ((DigestInt(SubSeq(s, 1, Len(s) - 1)) * 31 + CharCode(s[Len(s)]) + 11) * 313) % 1009

\* int(hashlib.sha256(str(d).encode()).hexdigest(), 16)
hash_depth(d) == DigestInt(Str(d))

(***************************************************************************)
(* CryptoContext.                                                          *)
(***************************************************************************)

\* CryptoContext.DOMAIN: the tag that prefixes every hash-to-prime input.
DomainTag == <<"d">>

RECURSIVE PowMod(_, _, _)
\* engine: safe_pow_mod, base^exp mod m by square and multiply.
PowMod(base, exp, m) ==
    IF exp = 0 THEN 1 % m
    ELSE LET h  == PowMod(base, exp \div 2, m)
             sq == (h * h) % m
         IN  IF exp % 2 = 1 THEN (sq * (base % m)) % m ELSE sq

\* engine: RustAccumulator.safe_pow_mod(base_str, exp_str, m_str) -> str
safe_pow_mod(base_str, exp_str, m_str) ==
    Str(PowMod(ParseDecimal(base_str), ParseDecimal(exp_str), ParseDecimal(m_str)))

\* CryptoContext.fast_pow
fast_pow(base, exp) == ParseDecimal(safe_pow_mod(Str(base), Str(exp), Str(M)))

\* Trial division; the candidates stay below 47 * 47.
IsPrime(n) == n > 1 /\ \A k \in 2..46 : k >= n \/ n % k # 0

RECURSIVE NextPrime(_)
NextPrime(n) == IF IsPrime(n) THEN n ELSE NextPrime(n + 2)

\* engine: hash_to_prime(agent_id): h = SHA256(DOMAIN || agent_id), lowest
\* bit set, then the first prime from there on.
hash_to_prime(agent_id) ==
    LET h == DigestInt(DomainTag \o agent_id)
    IN  NextPrime(h + (1 - (h % 2)))

(***************************************************************************)
(* The native engine (RustAccumulator): state and operations.              *)
(***************************************************************************)

\* engine: RustAccumulator(M_str, G_str, MAX_DEPTH, DOMAIN)
NewEngine == [T |-> 2, depth |-> 0, op_count |-> 0]

\* engine: get_state(), the state as a hexadecimal string
get_state(b) == Format(b.T, 16)

\* engine: get_depth()
get_depth(b) == b.depth

\* engine: get_op_count()
get_op_count(b) == b.op_count

\* The update rule: T' = (T^p * G^hash_depth(d)) mod M.
UpdateRule(t, p, d) == (PowMod(t, p, M) * PowMod(G, hash_depth(d), M)) % M

\* An engine that does not compare expected_prev_t.
UpdateErrorNoGuard(b, agent_id, expected_prev_t) ==
    IF Len(agent_id) > 256 THEN "InputTooLong"
    ELSE IF b.op_count + 2 > MAX_OPS THEN "OpsLimit"
    ELSE "ok"

\* engine: the checks every update makes before it touches the state.
UpdateError(b, agent_id, expected_prev_t) ==
    IF Len(agent_id) > 256 THEN "InputTooLong"
    ELSE IF expected_prev_t # Str(b.T) THEN "StaleState"
    ELSE IF b.op_count + 2 > MAX_OPS THEN "OpsLimit"
    ELSE "ok"

\* engine: update_state(agent_id, expected_prev_t) -> decimal string of T'.
\* The result is [err, backend, t]: on an error the engine is unchanged.
engine_update_state(b, agent_id, expected_prev_t) ==
    LET err == UpdateError(b, agent_id, expected_prev_t)
        t2  == UpdateRule(b.T, hash_to_prime(agent_id), b.depth)
    IN  IF err # "ok"
        THEN [err |-> err, backend |-> b, t |-> <<>>]
        ELSE [err |-> "ok",
              backend |-> [T |-> t2, depth |-> b.depth + 1,
                           op_count |-> b.op_count + 2],
              t |-> Str(t2)]

\* engine: set_state(t_str, depth): the trace and the depth are replaced.
set_state(b, t_str, d) == [b EXCEPT !.T = ParseDecimal(t_str), !.depth = d]

\* engine: the block of a fold of state b (steps 1 and 2 of the fold).
SnapshotBlock(b, segment_id, last_snapshot_hash) ==
    [segment_id        |-> segment_id,
     final_t           |-> Str(b.T),
     depth_at_snapshot |-> b.depth,
     snapshot_hash     |-> Sha256(Str(b.T)),
     prev_hash         |-> last_snapshot_hash]

\* engine: the reseeded trace, int(snapshot_hash) mod M.
Reseed(t) == DigestInt(Str(t)) % M

\* engine: update_with_snapshot(agent_id, segment_id, last_snapshot_hash,
\* expected_prev_t) -> (T', folded, block).  At depth = MAX_DEPTH the state
\* is folded first and the update applies to the reseeded state.
update_with_snapshot(b, agent_id, segment_id, last_snapshot_hash, expected_prev_t) ==
    LET err    == UpdateError(b, agent_id, expected_prev_t)
        folded == b.depth = MAX_DEPTH
        t1     == IF folded THEN Reseed(b.T) ELSE b.T
        d1     == IF folded THEN 0 ELSE b.depth
        t2     == UpdateRule(t1, hash_to_prime(agent_id), d1)
    IN  IF err # "ok"
        THEN [err |-> err, backend |-> b, t |-> <<>>, is_folded |-> FALSE,
              block |-> <<>>]
        ELSE [err |-> "ok",
              backend |-> [T |-> t2, depth |-> d1 + 1,
                           op_count |-> b.op_count + 2],
              t |-> Str(t2),
              is_folded |-> folded,
              block |-> IF folded
                        THEN SnapshotBlock(b, segment_id, last_snapshot_hash)
                        ELSE <<>>]

(***************************************************************************)
(* Python values: [ty, text, num, items].  A str carries its text, an int  *)
(* its number, a float the clock ticks it counts, a dict its items in      *)
(* insertion order, each [k |-> key text, v |-> a scalar value].           *)
(***************************************************************************)

\* Clock ticks per second.
TicksPerSecond == 2

PyStr(s) == [ty |-> "str", text |-> s, num |-> 0, items |-> <<>>]

PyInt(n) == [ty |-> "int", text |-> <<>>, num |-> n, items |-> <<>>]

PyFloat(ticks) == [ty |-> "float", text |-> <<>>, num |-> ticks, items |-> <<>>]

PyDict(items) == [ty |-> "dict", text |-> <<>>, num |-> 0, items |-> items]

PyNone == [ty |-> "NoneType", text |-> <<>>, num |-> 0, items |-> <<>>]

\* repr of a float of whole and fractional seconds, as in "1.5".
FloatStr(ticks) ==
    Str(ticks \div TicksPerSecond) \o <<".">> \o
    Str(((ticks % TicksPerSecond) * 10) \div TicksPerSecond)

\* str(v) of a scalar, which is also how an f-string formats it.
ScalarStr(v) ==
    CASE v.ty = "str"   -> v.text
      [] v.ty = "int"   -> Str(v.num)
      [] v.ty = "float" -> FloatStr(v.num)
      [] OTHER          -> <<"N", "o", "n", "e">>

\* repr(v) of a scalar inside a dict's repr.
ScalarRepr(v) ==
    IF v.ty = "str" THEN <<"'">> \o v.text \o <<"'">> ELSE ScalarStr(v)

\* json.dumps(v) of a scalar.
ScalarJson(v) ==
    CASE v.ty = "str"      -> <<"\"">> \o v.text \o <<"\"">>
      [] v.ty = "NoneType" -> <<"n", "u", "l", "l">>
      [] OTHER             -> ScalarStr(v)

RECURSIVE JoinItems(_, _)
\* The items of a dict, each as <quote>key<quote>: value, joined by ", ".
\* form "json" renders as json.dumps does, form "repr" as repr does.
JoinItems(items, form) ==
    IF Len(items) = 0 THEN <<>>
    ELSE LET it   == items[1]
             one  == IF form = "json"
                     THEN <<"\"">> \o it.k \o <<"\"", ":", " ">> \o ScalarJson(it.v)
                     ELSE <<"'">> \o it.k \o <<"'", ":", " ">> \o ScalarRepr(it.v)
             rest == JoinItems(Tail(items), form)
         IN  IF Len(items) = 1 THEN one ELSE one \o <<",", " ">> \o rest

RECURSIVE StrLess(_, _)
\* s < t for strings.
StrLess(s, t) ==
    IF Len(t) = 0 THEN FALSE
    ELSE IF Len(s) = 0 THEN TRUE
    ELSE IF CharCode(s[1]) # CharCode(t[1]) THEN CharCode(s[1]) < CharCode(t[1])
    ELSE StrLess(Tail(s), Tail(t))

RECURSIVE InsertItem(_, _)
InsertItem(it, sorted) ==
    IF Len(sorted) = 0 THEN <<it>>
    ELSE IF StrLess(it.k, sorted[1].k) THEN <<it>> \o sorted
    ELSE <<sorted[1]>> \o InsertItem(it, Tail(sorted))

RECURSIVE SortItems(_)
\* The items in key order (sort_keys=True).
SortItems(items) ==
    IF Len(items) = 0 THEN <<>>
    ELSE InsertItem(items[1], SortItems(Tail(items)))

\* json.dumps(v, sort_keys=sort_keys)
json_dumps(v, sort_keys) ==
    IF v.ty = "dict"
    THEN <<"{">> \o JoinItems(IF sort_keys THEN SortItems(v.items) ELSE v.items,
                              "json") \o <<"}">>
    ELSE ScalarJson(v)

\* str(v), f"{v}"
py_str(v) ==
    IF v.ty = "dict"
    THEN <<"{">> \o JoinItems(v.items, "repr") \o <<"}">>
    ELSE ScalarStr(v)

\* bool(v): None, 0, 0.0, "" and {} are false.
Truthy(v) ==
    CASE v.ty = "NoneType" -> FALSE
      [] v.ty = "str"      -> v.text # <<>>
      [] v.ty = "dict"     -> v.items # <<>>
      [] OTHER             -> v.num # 0

\* s1 | s2 | ... : the anchor's fields joined by the separator.
RECURSIVE JoinBar(_)
JoinBar(parts) ==
    IF Len(parts) = 1 THEN parts[1]
    ELSE parts[1] \o <<"|">> \o JoinBar(Tail(parts))

(***************************************************************************)
(* StateSealer (security.py).                                              *)
(***************************************************************************)

\* StateSealer._compute_payload_hash
compute_payload_hash(payload) ==
    IF payload.ty = "dict"
    THEN Sha256(json_dumps(payload, TRUE))
    ELSE Sha256(py_str(payload))

\* Metrics that never reach the anchor.
MetricsStrIgnored(metrics) == <<"{", "}">>

\* json.dumps(metrics) if metrics else "{}"
MetricsStr(metrics) ==
    IF Truthy(metrics) THEN json_dumps(metrics, FALSE) ELSE <<"{", "}">>

\* The anchor string of seal, from the AgentState.
SealAnchor(st, extra_metrics) ==
    JoinBar(<<py_str(st.meta.trace_t),
              compute_payload_hash(st.payload),
              MetricsStr(extra_metrics),
              py_str(st.nonce),
              py_str(st.timestamp),
              py_str(st.meta.total_op_count)>>)

\* StateSealer.seal(state, extra_metrics)
seal(st, extra_metrics) ==
    [version |-> "v2.2-timestamped",
     header  |-> [trace_t        |-> PyStr(py_str(st.meta.trace_t)),
                  integrity_seal |-> PyStr(Sha256(SealAnchor(st, extra_metrics))),
                  nonce          |-> st.nonce,
                  timestamp      |-> st.timestamp,
                  ops            |-> st.meta.total_op_count],
     body    |-> [payload |-> st.payload,
                  metrics |-> extra_metrics]]

\* A verifier that serialises the metrics with sorted keys.
VerifyAnchorSorted(env) ==
    JoinBar(<<py_str(env.header.trace_t),
              compute_payload_hash(env.body.payload),
              IF Truthy(env.body.metrics)
              THEN json_dumps(env.body.metrics, TRUE) ELSE <<"{", "}">>,
              py_str(env.header.nonce),
              py_str(env.header.timestamp),
              py_str(env.header.ops)>>)

\* The anchor string verify recomputes from the envelope.
VerifyAnchor(env) ==
    JoinBar(<<py_str(env.header.trace_t),
              compute_payload_hash(env.body.payload),
              MetricsStr(env.body.metrics),
              py_str(env.header.nonce),
              py_str(env.header.timestamp),
              py_str(env.header.ops)>>)

\* StateSealer.verify(envelope)
verify(env) == PyStr(Sha256(VerifyAnchor(env))) = env.header.integrity_seal

\* models.AgentState with its HolographicMeta
AgentState(payload, trace_t, total_op_count, nonce, timestamp) ==
    [task_id   |-> <<"k">>,
     payload   |-> payload,
     meta      |-> [trace_t |-> trace_t, depth |-> 0, segment_id |-> 0,
                    path_log |-> <<>>, total_op_count |-> total_op_count],
     nonce     |-> nonce,
     timestamp |-> timestamp]

NoState == [task_id |-> <<>>]

NoEnvelope == [version |-> "none"]

NoVerdict == [op |-> "none"]

(***************************************************************************)
(* PrimeRegistry (core.py).  cache is a set of [id, p], request_log a set  *)
(* of [id, t]: the time of the last admitted request of each id.           *)
(***************************************************************************)

\* PrimeRegistry.__init__
NewRegistry == [cache |-> {}, request_log |-> {}]

\* PrimeRegistry.RATE_LIMIT_WINDOW: 1.0 second
RATE_LIMIT_WINDOW == 1 * TicksPerSecond

\* PrimeRegistry.MAX_REQUESTS_PER_WINDOW
MAX_REQUESTS_PER_WINDOW == 100

\* The request log with the entries older than the window dropped.
Purged(log, t) == {e \in log : t - e.t < RATE_LIMIT_WINDOW}

\* The rate-limit test of register_agent, on the purged log, made before the
\* request is logged.
RateLimitExceeded(log) == Cardinality(log) > MAX_REQUESTS_PER_WINDOW

\* PrimeRegistry.register_agent(agent_id) at time t.  The result is
\* [err, registry, p]; the purge is kept also when the call raises.
register_agent(reg, agent_id, t) ==
    LET log    == Purged(reg.request_log, t)
        logged == {e \in log : e.id # agent_id} \cup {[id |-> agent_id, t |-> t]}
        hit    == {c \in reg.cache : c.id = agent_id}
        p      == hash_to_prime(agent_id)
    IN  IF RateLimitExceeded(log)
        THEN [err |-> "RateLimited",
              registry |-> [cache |-> reg.cache, request_log |-> log],
              p |-> 0]
        ELSE IF hit # {}
        THEN [err |-> "ok",
              registry |-> [cache |-> reg.cache, request_log |-> logged],
              p |-> (CHOOSE c \in hit : TRUE).p]
        ELSE [err |-> "ok",
              registry |-> [cache |-> reg.cache \cup {[id |-> agent_id, p |-> p]},
                            request_log |-> logged],
              p |-> p]

\* PrimeRegistry.get_prime
get_prime(reg, agent_id, t) == register_agent(reg, agent_id, t)

(***************************************************************************)
(* ParallelScope (scopes.py).  names lists the names given to              *)
(* add_branch_result, in order; the code keeps only their primes.          *)
(***************************************************************************)

\* ParallelScope.__init__(context, registry_ref, base_t, current_depth)
NewScope(base_t, current_depth) ==
    [base_t |-> base_t, base_depth |-> current_depth,
     branch_factors |-> <<>>, names |-> <<>>]

NoScope == [base_t |-> 0, base_depth |-> 0, branch_factors |-> <<>>,
            names |-> <<"none">>]

RECURSIVE Product(_)
\* reduce(lambda x, y: x * y, factors)
Product(factors) ==
    IF Len(factors) = 1 THEN factors[1]
    ELSE Product(SubSeq(factors, 1, Len(factors) - 1)) * factors[Len(factors)]

\* ParallelScope.merge() -> (t_final, next_depth)
merge(s) ==
    IF s.branch_factors = <<>>
    THEN [t |-> s.base_t, depth |-> s.base_depth]
    ELSE LET p_total    == Product(s.branch_factors)
             term_path  == fast_pow(s.base_t, p_total)
             next_depth == s.base_depth + 1
             depth_hash == hash_depth(next_depth)
             term_depth == fast_pow(G, depth_hash)
         IN  [t |-> (term_path * term_depth) % M, depth |-> next_depth]

(***************************************************************************)
(* TraceInspector (security.py).  A header is [present, timestamp, ops];   *)
(* timestamp counts clock ticks.                                           *)
(***************************************************************************)

\* verify_path called without a header (envelope_header=None).
NoHeader == [present |-> FALSE, timestamp |-> 0, ops |-> 0]

\* TraceInspector.MAX_CLOCK_DRIFT: 300 seconds
MAX_CLOCK_DRIFT == 300 * TicksPerSecond

\* The ceiling of the replay's exponentiation counter.
VerifyOpsCeiling == 500

\* abs(x)
Abs(x) == IF x < 0 THEN 0 - x ELSE x

\* A drift test that lets timestamps of the future pass.
DriftRejectedPastOnly(header, t) ==
    header.present /\ t - header.timestamp > MAX_CLOCK_DRIFT

\* The time-window test of verify_path.
DriftRejected(header, t) ==
    header.present /\ Abs(t - header.timestamp) > MAX_CLOCK_DRIFT

\* The replay of verify_path before its loop.
ReplayStart(reg) ==
    [reason |-> "done", registry |-> reg, simulated_t |-> 2,
     simulated_depth |-> 0, ops_counter |-> 0]

\* A circuit breaker that trips when the counter reaches the ceiling.
BudgetReached(ops_counter) == ops_counter >= VerifyOpsCeiling

\* The circuit breaker of the replay loop: if ops_counter > 500
BudgetExceeded(ops_counter) == ops_counter > VerifyOpsCeiling

\* One iteration of the replay loop of verify_path, for agent_name, from the
\* loop state st: [simulated_t, simulated_depth, ops_counter], the registry
\* as the lookups leave it, and the reason the loop ended for ("done" while
\* it goes on).
ReplayIteration(st, agent_name, t) ==
    LET r          == get_prime(st.registry, agent_name, t)
        path_term  == fast_pow(st.simulated_t, r.p)
        depth_term == fast_pow(G, hash_depth(st.simulated_depth))
        next       == [reason          |-> "done",
                       registry        |-> r.registry,
                       simulated_t     |-> (path_term * depth_term) % M,
                       simulated_depth |-> st.simulated_depth + 1,
                       ops_counter     |-> st.ops_counter + 2]
    IN  IF r.err # "ok"
        THEN [st EXCEPT !.reason = r.err, !.registry = r.registry]
        ELSE IF r.p = 0
        THEN [st EXCEPT !.reason = "UnknownAgent", !.registry = r.registry]
        ELSE IF BudgetExceeded(next.ops_counter)
        THEN [next EXCEPT !.reason = "VerificationOverBudget"]
        ELSE next

RECURSIVE Replay(_, _, _)
\* The replay loop of verify_path over the witness list left.
Replay(st, witness, t) ==
    IF witness = <<>> \/ st.reason # "done" THEN st
    ELSE Replay(ReplayIteration(st, Head(witness), t), Tail(witness), t)

\* What verify_path returns once its loop has ended in loop state r: the
\* rejection of the loop, or the comparison of the replayed trace with the
\* target under the reason "Verification Passed".  header.ops is read and
\* compared with nothing.
PathVerdict(r, target_t) ==
    IF r.reason # "done"
    THEN [ok |-> FALSE, reason |-> r.reason, ops |-> r.ops_counter,
          registry |-> r.registry]
    ELSE [ok |-> Str(r.simulated_t) = Str(target_t),
          reason |-> "Verification Passed", ops |-> r.ops_counter,
          registry |-> r.registry]

\* TraceInspector.verify_path(target_t, claimed_witness_list, envelope_header)
\* at time t.  The result is [ok, reason, ops, registry].  A RateLimited
\* lookup is an exception that leaves verify_path: it is reported here with
\* ok = FALSE.
verify_path(reg, target_t, claimed_witness_list, envelope_header, t) ==
    IF DriftRejected(envelope_header, t)
    THEN [ok |-> FALSE, reason |-> "TimestampDrift", ops |-> 0, registry |-> reg]
    ELSE PathVerdict(Replay(ReplayStart(reg), claimed_witness_list, t), target_t)

(***************************************************************************)
(* SwarmScope (scopes.py).  tracked lists the sub-tasks tracked and        *)
(* injected counts the injections of its result: the code keeps neither.   *)
(***************************************************************************)

\* No SwarmScope has been made.
NoSwarm == [swarm_name |-> <<>>, backend |-> NewEngine, swarm_prime |-> 0,
            tracked |-> <<"none">>, injected |-> 0]

\* SwarmScope.__init__(swarm_name, parent_context, registry_ref), given the
\* prime the registry returned.
NewSwarm(swarm_name, swarm_prime) ==
    [swarm_name |-> swarm_name, backend |-> NewEngine,
     swarm_prime |-> swarm_prime, tracked |-> <<>>, injected |-> 0]

\* A seal_and_export that reads the engine's state as a decimal string.
seal_and_export_decimal(sw) ==
    LET local_t       == ParseDecimal(get_state(sw.backend))
        local_depth   == get_depth(sw.backend)
        proof_payload == sw.swarm_name \o <<":">> \o Str(local_t) \o <<":">>
                         \o Str(local_depth)
    IN  [swarm_prime |-> sw.swarm_prime,
         work_proof  |-> DigestInt(proof_payload),
         complexity  |-> local_depth]

\* SwarmScope.seal_and_export()
seal_and_export(sw) ==
    LET local_t       == ParseHex(get_state(sw.backend))
        local_depth   == get_depth(sw.backend)
        proof_payload == sw.swarm_name \o <<":">> \o Str(local_t) \o <<":">>
                         \o Str(local_depth)
    IN  [swarm_prime |-> sw.swarm_prime,
         work_proof  |-> DigestInt(proof_payload),
         complexity  |-> local_depth]

\* The trace update_global_with_swarm computes for a parent at
\* (current_global_t, global_depth).
InjectedT(current_global_t, global_depth, swarm_result) ==
    LET term_identity     == fast_pow(current_global_t, swarm_result.swarm_prime)
        effective_depth   == global_depth + swarm_result.complexity
        term_perturbation == fast_pow(G, swarm_result.work_proof + effective_depth)
    IN  (term_identity * term_perturbation) % M

\* The writer is between two calls.
Idle == [pc |-> "idle"]

(***************************************************************************)
(* State.                                                                  *)
(***************************************************************************)

VARIABLES
    backend,             \* the accumulator's engine: [T, depth, op_count]
    current_T,           \* HolographicAccumulator.current_T
    depth,               \* HolographicAccumulator.depth
    history,             \* HolographicAccumulator.history
    snapshot_store,      \* SnapshotAccumulator.snapshot_store
    segment_id,          \* SnapshotAccumulator.segment_id
    last_snapshot_hash,  \* SnapshotAccumulator.last_snapshot_hash
    outcome,             \* the last accumulator call and how it ended
    now,                 \* time.time(), in ticks
    registry,            \* PrimeRegistry: [cache, request_log]
    scope,               \* ParallelScope: [base_t, base_depth, branch_factors]
    state,               \* the AgentState being sealed
    sealed,              \* the envelope as StateSealer.seal returned it
    envelope,            \* the envelope as it reaches the verifier
    verdict,             \* the last verification and its result
    swarm,               \* SwarmScope: [swarm_name, backend, swarm_prime, ...]
    writer               \* the writer's position inside a call: [pc, ...]

accVars == <<backend, current_T, depth, history, snapshot_store,
             segment_id, last_snapshot_hash>>

sealVars == <<state, sealed, envelope>>

envVars == <<registry, scope, swarm, writer, sealVars, verdict>>

vars == <<accVars, outcome, now, envVars>>

(***************************************************************************)
(* HolographicAccumulator and SnapshotAccumulator (core.py).               *)
(***************************************************************************)

\* HolographicAccumulator.__init__ and SnapshotAccumulator.__init__
InitAccumulator ==
    /\ backend = NewEngine
    /\ current_T = ParseHex(get_state(NewEngine))
    /\ depth = get_depth(NewEngine)
    /\ history = <<>>
    /\ snapshot_store = <<>>
    /\ segment_id = 0
    /\ last_snapshot_hash = GenesisHash

\* HolographicAccumulator.get_op_count
op_count == get_op_count(backend)

\* HolographicAccumulator.update_state(agent_id): the engine is called with
\* the host's current_T as expected_prev_t; an exception leaves the host as
\* it was.
update_state(agent_id) ==
    LET r == engine_update_state(backend, agent_id, Str(current_T))
    IN  /\ outcome' = [op |-> "update_state", agent |-> agent_id,
                       expected |-> Str(current_T), result |-> r.err]
        /\ IF r.err # "ok"
           THEN UNCHANGED accVars
           ELSE /\ backend' = r.backend
                /\ current_T' = ParseDecimal(r.t)
                /\ depth' = get_depth(r.backend)
                /\ history' = Append(history,
                       [depth |-> get_depth(r.backend), agent |-> agent_id,
                        T |-> ParseDecimal(r.t),
                        ops |-> get_op_count(r.backend)])
                /\ UNCHANGED <<snapshot_store, segment_id, last_snapshot_hash>>
        /\ UNCHANGED <<now, envVars>>

\* A host that stores whatever block the engine hands it.
ChainCheckSkipped(block) == FALSE

\* A chain check with its comparison inverted.
ChainCheckInverted(block) == block.prev_hash = last_snapshot_hash

\* The chain check of update_state_with_check: the block's prev_hash must be
\* the host's last_snapshot_hash.
ChainCheckFails(block) == block.prev_hash # last_snapshot_hash

\* The link the host keeps after accepting a block.
AcceptedHash(block) == block.snapshot_hash

\* SnapshotAccumulator.update_state_with_check from the engine's answer r on:
\* current_T and depth are assigned first, then a folded block is checked,
\* stored and linked, then the history entry is appended.
SnapshotCommit(agent_id, r) ==
    LET block == [segment_id        |-> r.block.segment_id,
                  final_t           |-> r.block.final_t,
                  depth_at_snapshot |-> r.block.depth_at_snapshot,
                  snapshot_hash     |-> r.block.snapshot_hash,
                  prev_hash         |-> r.block.prev_hash,
                  timestamp         |-> now]
        entry == [depth |-> get_depth(r.backend), agent |-> agent_id,
                  T |-> ParseDecimal(r.t), folded |-> r.is_folded,
                  ops |-> get_op_count(r.backend)]
        call  == [op |-> "update_state_with_check", agent |-> agent_id,
                  expected |-> Str(current_T), result |-> "none"]
    IN  IF r.err # "ok"
        THEN /\ outcome' = [call EXCEPT !.result = r.err]
             /\ UNCHANGED accVars
        ELSE /\ backend' = r.backend
             /\ current_T' = ParseDecimal(r.t)
             /\ depth' = get_depth(r.backend)
             /\ IF r.is_folded /\ ChainCheckFails(block)
                THEN /\ outcome' = [call EXCEPT !.result = "ChainIntegrity"]
                     /\ UNCHANGED <<history, snapshot_store, segment_id,
                                    last_snapshot_hash>>
                ELSE /\ outcome' = [call EXCEPT !.result = "ok"]
                     /\ IF r.is_folded
                        THEN /\ snapshot_store' = Append(snapshot_store, block)
                             /\ last_snapshot_hash' = AcceptedHash(block)
                             /\ segment_id' = segment_id + 1
                        ELSE UNCHANGED <<snapshot_store, last_snapshot_hash,
                                         segment_id>>
                     /\ history' = Append(history, entry)

\* SnapshotAccumulator.update_state_with_check(agent_id)
update_state_with_check(agent_id) ==
    /\ SnapshotCommit(agent_id,
           update_with_snapshot(backend, agent_id, segment_id,
                                last_snapshot_hash, Str(current_T)))
    /\ UNCHANGED <<now, envVars>>

\* update_state_with_check when the engine's block does not carry the link
\* it was given: the case the host's chain check is there for.
UnlinkedFold(agent_id, bad_hash) ==
    LET r == update_with_snapshot(backend, agent_id, segment_id,
                                  last_snapshot_hash, Str(current_T))
    IN  /\ r.err = "ok"
        /\ r.is_folded
        /\ bad_hash # last_snapshot_hash
        /\ SnapshotCommit(agent_id, [r EXCEPT !.block.prev_hash = bad_hash])
        /\ UNCHANGED <<now, envVars>>

\* Links an engine block may carry instead of the one it was given.
StrayHashes == {GenesisHash, Sha256(<<"0">>)}

NoCall == [op |-> "none", agent |-> <<>>, expected |-> <<>>, result |-> "none"]

\* Nothing sealed, nothing verified, an empty registry, no scope.
InitEnv ==
    /\ registry = NewRegistry
    /\ scope = NoScope
    /\ swarm = NoSwarm
    /\ writer = Idle
    /\ state = NoState
    /\ sealed = NoEnvelope
    /\ envelope = NoEnvelope
    /\ verdict = NoVerdict

Init ==
    /\ InitAccumulator
    /\ outcome = NoCall
    /\ now = 0
    /\ InitEnv

\* One accumulator driven by one caller.
Next ==
    \/ \E a \in Agents : update_state(a)
    \/ \E a \in Agents : update_state_with_check(a)

Spec == Init /\ [][Next]_vars

\* The same, with an engine whose fold blocks may carry a stray link.
NextUnlinked ==
    \/ \E a \in Agents : update_state(a)
    \/ \E a \in Agents : update_state_with_check(a)
    \/ \E a \in Agents : \E h \in StrayHashes : UnlinkedFold(a, h)

SpecUnlinked == Init /\ [][NextUnlinked]_vars

\* A caller at the engine's boundary: update_state(agent_id, expected_prev_t)
\* with the current trace, the initial trace, or the trace of its last call.
EngineCall(agent_id, expected_prev_t) ==
    LET r == engine_update_state(backend, agent_id, expected_prev_t)
    IN  /\ backend' = r.backend
        /\ outcome' = [op |-> "engine.update_state", agent |-> agent_id,
                       expected |-> expected_prev_t, result |-> r.err]
        /\ UNCHANGED <<current_T, depth, history, snapshot_store, segment_id,
                       last_snapshot_hash, now, envVars>>

NextEngine ==
    \E a \in Agents :
        \E e \in {Str(backend.T), Str(2)} \cup
                 (IF outcome.op = "none" THEN {} ELSE {outcome.expected}) :
            EngineCall(a, e)

SpecEngine == Init /\ [][NextEngine]_vars

(***************************************************************************)
(* Sealing, tampering and verifying an envelope.                           *)
(***************************************************************************)

TwoItems == <<[k |-> <<"b">>, v |-> PyInt(1)], [k |-> <<"a">>, v |-> PyInt(2)]>>

\* Payloads: strings, a number, None, a mapping, and the text of a mapping.
Payloads ==
    {PyStr(<<"x">>), PyStr(<<"1">>), PyInt(1), PyNone, PyDict(TwoItems),
     PyStr(json_dumps(PyDict(TwoItems), TRUE))}

\* extra_metrics: None, the empty map, and maps with one and two entries.
MetricsPool ==
    {PyNone, PyDict(<<>>), PyDict(<<[k |-> <<"k">>, v |-> PyInt(5)]>>),
     PyDict(TwoItems)}

AgentStates ==
    {AgentState(p, PyInt(t), PyInt(o), PyStr(n), PyFloat(ts)) :
        p \in Payloads, t \in {2, 14561}, o \in {0, 4},
        n \in {<<"a", "1">>, <<"7">>}, ts \in {0, 3}}

IsDigits(s) == Len(s) > 0 /\ \A i \in 1..Len(s) : CharCode(s[i]) < 10

\* The same text as a value of another type: 4 for "4", "4" for 4.
Retyped(v) ==
    CASE v.ty = "int"                      -> PyStr(py_str(v))
      [] v.ty = "float"                    -> PyStr(py_str(v))
      [] v.ty = "str" /\ IsDigits(v.text)  -> PyInt(ParseDecimal(v.text))
      [] OTHER                             -> v

HeaderFields == {"trace_t", "integrity_seal", "nonce", "timestamp", "ops"}

BodyFields == {"payload", "metrics"}

\* The value of a field of an envelope.
FieldOf(env, f) == IF f \in HeaderFields THEN env.header[f] ELSE env.body[f]

\* The values a field may be changed to.
TamperValues(env, f) ==
    CASE f = "payload" -> Payloads
      [] f = "metrics" -> MetricsPool
      [] OTHER         -> {PyStr(<<"9">>), PyInt(9), PyFloat(1),
                           Retyped(env.header[f])}

\* StateSealer.seal on the AgentState, once.
SealState(extra_metrics) ==
    /\ sealed = NoEnvelope
    /\ sealed' = seal(state, extra_metrics)
    /\ envelope' = seal(state, extra_metrics)
    /\ UNCHANGED <<accVars, swarm, writer, outcome, now, registry, scope, state, verdict>>

\* One field of the sealed envelope is given another value on its way.
Tamper(f, v) ==
    /\ sealed # NoEnvelope
    /\ envelope = sealed
    /\ v # FieldOf(envelope, f)
    /\ envelope' = IF f \in HeaderFields
                   THEN [envelope EXCEPT !.header[f] = v]
                   ELSE [envelope EXCEPT !.body[f] = v]
    /\ UNCHANGED <<accVars, swarm, writer, outcome, now, registry, scope, state, sealed, verdict>>

\* StateSealer.verify on the envelope as it arrived.
VerifyEnvelope ==
    /\ envelope # NoEnvelope
    /\ verdict' = [op |-> "verify", envelope |-> envelope, ok |-> verify(envelope)]
    /\ UNCHANGED <<accVars, swarm, writer, outcome, now, registry, scope, sealVars>>

InitSeal ==
    /\ InitAccumulator
    /\ outcome = NoCall
    /\ now = 0
    /\ registry = NewRegistry
    /\ scope = NoScope
    /\ swarm = NoSwarm
    /\ writer = Idle
    /\ state \in AgentStates
    /\ sealed = NoEnvelope
    /\ envelope = NoEnvelope
    /\ verdict = NoVerdict

NextSeal ==
    \/ \E m \in MetricsPool : SealState(m)
    \/ /\ envelope # NoEnvelope
       /\ \E f \in HeaderFields \cup BodyFields :
              \E v \in TamperValues(envelope, f) : Tamper(f, v)
    \/ VerifyEnvelope

SpecSeal == InitSeal /\ [][NextSeal]_vars

(***************************************************************************)
(* The clock.                                                              *)
(***************************************************************************)

\* time.time() when the run starts: far enough from zero for a timestamp to
\* lie a full drift window before it.
Epoch == 2 * MAX_CLOCK_DRIFT

\* Clock ticks a run lasts.
MaxTicks == 2

\* time.time() moves on by one tick.
Tick ==
    /\ now < Epoch + MaxTicks
    /\ now' = now + 1
    /\ UNCHANGED <<accVars, outcome, envVars>>

InitClock ==
    /\ InitAccumulator
    /\ outcome = NoCall
    /\ now = Epoch
    /\ InitEnv

(***************************************************************************)
(* A ParallelScope being filled and merged.                                *)
(***************************************************************************)

\* Names of parallel branches.
Workers == {<<"X">>, <<"Y">>, <<"Z">>}

\* Branches added to one scope.
MaxBranches == 3

\* Base states a scope is opened on: the initial state and the state after
\* update_state("A").
Bases == {[t |-> 2, d |-> 0],
          [t |-> UpdateRule(2, hash_to_prime(<<"A">>), 0), d |-> 1]}

\* ParallelScope(ctx, reg, base_t, current_depth)
OpenScope(base) ==
    /\ scope = NoScope
    /\ scope' = NewScope(base.t, base.d)
    /\ UNCHANGED <<accVars, swarm, writer, outcome, now, registry, sealVars, verdict>>

\* ParallelScope.add_branch_result(agent_name)
add_branch_result(agent_name) ==
    LET r == register_agent(registry, agent_name, now)
    IN  /\ scope # NoScope
        /\ Len(scope.names) < MaxBranches
        /\ registry' = r.registry
        /\ outcome' = [op |-> "add_branch_result", agent |-> agent_name,
                       expected |-> <<>>, result |-> r.err]
        /\ scope' = IF r.err # "ok" THEN scope
                    ELSE [scope EXCEPT
                             !.branch_factors = Append(@, r.p),
                             !.names = Append(@, agent_name)]
        /\ UNCHANGED <<accVars, swarm, writer, now, sealVars, verdict>>

\* scope.merge(), its result kept in verdict
MergeScope ==
    /\ scope # NoScope
    /\ verdict' = [op |-> "merge", names |-> scope.names,
                   base_t |-> scope.base_t, base_depth |-> scope.base_depth,
                   t |-> merge(scope).t, depth |-> merge(scope).depth]
    /\ UNCHANGED <<accVars, swarm, writer, outcome, now, registry, scope, sealVars>>

NextParallel ==
    \/ \E b \in Bases : OpenScope(b)
    \/ \E a \in Workers : add_branch_result(a)
    \/ MergeScope

SpecParallel == InitClock /\ [][NextParallel]_vars

(***************************************************************************)
(* A registry asked for the primes of new agents.                          *)
(***************************************************************************)

\* Distinct agent ids presented to the registry.
MaxIds == 102

\* The id of the n-th new agent.
AgentId(n) == Str(n)

\* register_agent(agent_id) with an id not registered so far.
RegisterNew ==
    LET others   == {c \in registry.cache : c.id \notin Agents}
        agent_id == AgentId(Cardinality(others))
        r        == register_agent(registry, agent_id, now)
    IN  /\ Cardinality(others) < MaxIds
        /\ registry' = r.registry
        /\ outcome' = [op |-> "register_agent", agent |-> agent_id,
                       expected |-> <<>>, result |-> r.err]
        /\ UNCHANGED <<accVars, swarm, writer, now, scope, sealVars, verdict>>

NextRegistry ==
    \/ RegisterNew
    \/ Tick

SpecRegistry == InitClock /\ [][NextRegistry]_vars

(***************************************************************************)
(* An accumulator and an inspector verifying its trace.                    *)
(***************************************************************************)

\* The agents of the history, in order: the witness list of the trace.
WitnessOf(h) == [i \in 1..Len(h) |-> h[i].agent]

\* How far before the time of verification a presented header is stamped.
DriftOffsets ==
    {0, MAX_CLOCK_DRIFT, MAX_CLOCK_DRIFT + 1, 400 * TicksPerSecond,
     0 - (MAX_CLOCK_DRIFT + 1)}

\* The headers presented: none, or one stamped at an offset from now and
\* carrying the accumulator's op count or another number.
Headers ==
    {NoHeader} \cup
    {[present |-> TRUE, timestamp |-> now - off, ops |-> o] :
        off \in DriftOffsets, o \in {op_count, op_count + 1}}

\* inspector.verify_path(target_t, witness list of the history, header)
VerifyPath(target_t, header) ==
    LET r == verify_path(registry, target_t, WitnessOf(history), header, now)
    IN  /\ registry' = r.registry
        /\ verdict' = [op |-> "verify_path", target_t |-> target_t,
                       witness |-> WitnessOf(history), header |-> header,
                       now |-> now, ok |-> r.ok, reason |-> r.reason]
        /\ UNCHANGED <<accVars, swarm, writer, outcome, now, scope, sealVars>>

\* One run: the accumulator produces a trace, which is then presented to the
\* inspector once.
NextInspect ==
    /\ verdict = NoVerdict
    /\ \/ \E a \in Agents : update_state_with_check(a)
       \/ \E t \in {current_T, 2} : \E h \in Headers : VerifyPath(t, h)

SpecInspect == InitClock /\ [][NextInspect]_vars

(***************************************************************************)
(* verify_path step by step on long witness lists: one step per iteration  *)
(* of its loop.  While the call runs, verdict holds its position pc, the    *)
(* number of witnesses consumed and the loop state st.                      *)
(***************************************************************************)

\* The longest list the circuit breaker lets through.
WithinBudget == VerifyOpsCeiling \div 2

\* n times the same agent.
Repeated(n) == [i \in 1..n |-> <<"A">>]

\* n different agents.
Crowd(n) == [i \in 1..n |-> AgentId(i)]

\* Witness lists at the edge of the budget.
LongLists ==
    {Repeated(WithinBudget), Repeated(WithinBudget + 1),
     Crowd(WithinBudget), Crowd(WithinBudget + 1)}

\* Headers presented with a long list: none, one stamped now, one stamped
\* 400 seconds ago.
LongListHeaders(witness) ==
    {NoHeader,
     [present |-> TRUE, timestamp |-> now, ops |-> 2 * Len(witness)],
     [present |-> TRUE, timestamp |-> now - 400 * TicksPerSecond,
      ops |-> 2 * Len(witness)]}

\* verify_path up to its loop: the time-window test and the start of the
\* replay.
BeginVerify(target_t, witness, header) ==
    /\ verdict = NoVerdict
    /\ verdict' =
          IF DriftRejected(header, now)
          THEN [op |-> "verify_path", pc |-> "done", target_t |-> target_t,
                witness |-> witness, header |-> header, now |-> now,
                consumed |-> 0, st |-> ReplayStart(registry),
                ok |-> FALSE, reason |-> "TimestampDrift", ops |-> 0]
          ELSE [op |-> "verify_path", pc |-> "loop", target_t |-> target_t,
                witness |-> witness, header |-> header, now |-> now,
                consumed |-> 0, st |-> ReplayStart(registry),
                ok |-> FALSE, reason |-> "running", ops |-> 0]
    /\ UNCHANGED <<accVars, swarm, writer, outcome, now, registry, scope, sealVars>>

\* What the call has returned in loop state r.
Returned(r) ==
    LET v == PathVerdict(r, verdict.target_t)
    IN  [verdict EXCEPT !.pc = "done", !.st = r, !.ok = v.ok,
                        !.reason = v.reason, !.ops = v.ops]

\* One iteration of the loop; a rejection inside it returns at once.
VerifyIteration ==
    /\ verdict # NoVerdict
    /\ verdict.pc = "loop"
    /\ verdict.consumed < Len(verdict.witness)
    /\ LET r == ReplayIteration([verdict.st EXCEPT !.registry = registry],
                                verdict.witness[verdict.consumed + 1], now)
       IN  /\ registry' = r.registry
           /\ verdict' = IF r.reason # "done" THEN Returned(r)
                         ELSE [verdict EXCEPT !.st = r,
                                              !.consumed = @ + 1,
                                              !.ops = r.ops_counter]
    /\ UNCHANGED <<accVars, swarm, writer, outcome, now, scope, sealVars>>

\* The end of the list: the return of verify_path.
VerifyReturn ==
    /\ verdict # NoVerdict
    /\ verdict.pc = "loop"
    /\ verdict.consumed = Len(verdict.witness)
    /\ verdict' = Returned(verdict.st)
    /\ UNCHANGED <<accVars, swarm, writer, outcome, now, registry, scope, sealVars>>

NextBudget ==
    \/ \E w \in LongLists : \E h \in LongListHeaders(w) : BeginVerify(2, w, h)
    \/ VerifyIteration
    \/ VerifyReturn

SpecBudget == InitClock /\ [][NextBudget]_vars

(***************************************************************************)
(* Witness lists replayed again and again on one registry, between the     *)
(* lookups of other users of the registry.                                 *)
(***************************************************************************)

\* The longest witness list replayed.
MaxWitness == 2

\* The list of n agents that starts with first and takes the two agents in
\* turn.
Alternating(n, first) ==
    [i \in 1..n |-> IF i % 2 = 1 THEN first
                    ELSE CHOOSE a \in Agents : a # first]

\* The witness lists replayed.
ReplayLists ==
    {Alternating(n, first) : n \in 1..MaxWitness, first \in Agents}

\* The replay of verify_path on a witness list from (2, 0, 0); verdict keeps
\* what it ended with.
ReplayRun(witness) ==
    LET r == Replay(ReplayStart(registry), witness, now)
    IN  /\ registry' = r.registry
        /\ verdict' = [op |-> "replay", witness |-> witness, now |-> now,
                       reason |-> r.reason, simulated_t |-> r.simulated_t,
                       simulated_depth |-> r.simulated_depth,
                       ops_counter |-> r.ops_counter]
        /\ UNCHANGED <<accVars, swarm, writer, outcome, now, scope, sealVars>>

NextReplay ==
    \/ RegisterNew
    \/ \E w \in ReplayLists : ReplayRun(w)

SpecReplay == InitClock /\ [][NextReplay]_vars

(***************************************************************************)
(* A registry asked again for the prime of an agent it has cached.         *)
(***************************************************************************)

\* register_agent(agent_id) with the first id registered, which is cached.
RegisterCached ==
    LET agent_id == AgentId(0)
        r        == register_agent(registry, agent_id, now)
    IN  /\ \E c \in registry.cache : c.id = agent_id
        /\ registry' = r.registry
        /\ outcome' = [op |-> "register_agent (cached)", agent |-> agent_id,
                       expected |-> <<>>, result |-> r.err, p |-> r.p]
        /\ UNCHANGED <<accVars, swarm, writer, now, scope, sealVars, verdict>>

NextCached ==
    \/ RegisterNew
    \/ RegisterCached

SpecCached == InitClock /\ [][NextCached]_vars

(***************************************************************************)
(* An accumulator with a SwarmScope whose result is injected into it.      *)
(***************************************************************************)

\* The agent of the parent's own updates.
Leads == {<<"A">>}

\* Names of swarms.
SwarmNames == {<<"S">>}

\* Names of sub-tasks.
SubTasks == {<<"X">>}

\* Sub-tasks tracked by a swarm.
MaxSubTasks == 2

\* SwarmScope(swarm_name, ctx, reg): the swarm's prime is registered.
OpenSwarm(swarm_name) ==
    LET r == register_agent(registry, swarm_name, now)
    IN  /\ swarm = NoSwarm
        /\ registry' = r.registry
        /\ outcome' = [op |-> "SwarmScope", agent |-> swarm_name,
                       expected |-> <<>>, result |-> r.err]
        /\ swarm' = IF r.err # "ok" THEN swarm ELSE NewSwarm(swarm_name, r.p)
        /\ UNCHANGED <<accVars, now, scope, writer, sealVars, verdict>>

\* swarm.track_sub_task(sub_agent_name): the swarm's engine is updated; the
\* call passes no expected_prev_t, so the guard has nothing to refuse.
track_sub_task(sub_agent_name) ==
    LET r == engine_update_state(swarm.backend, sub_agent_name,
                                 Str(swarm.backend.T))
    IN  /\ swarm # NoSwarm
        /\ Len(swarm.tracked) < MaxSubTasks
        /\ outcome' = [op |-> "track_sub_task", agent |-> sub_agent_name,
                       expected |-> <<>>, result |-> r.err]
        /\ swarm' = IF r.err # "ok" THEN swarm
                    ELSE [swarm EXCEPT !.backend = r.backend,
                                       !.tracked = Append(@, sub_agent_name)]
        /\ UNCHANGED <<accVars, now, registry, scope, writer, sealVars, verdict>>

\* An injection that leaves the parent's engine as it was.
BackendNotSynced(b, new_global_t, d) == b

\* The parent's engine after the injection:
\* global_acc._backend.set_state(str(new_global_t), global_acc.depth)
SyncBackend(b, new_global_t, d) == set_state(b, Str(new_global_t), d)

\* update_global_with_swarm(global_acc, swarm.seal_and_export()): the host's
\* trace and depth are assigned and the engine is set to them; the history
\* and the snapshot chain are not touched.  A swarm's result is injected once.
update_global_with_swarm ==
    LET swarm_result == seal_and_export(swarm)
        new_global_t == InjectedT(current_T, depth, swarm_result)
    IN  /\ swarm # NoSwarm
        /\ swarm.injected = 0
        /\ current_T' = new_global_t
        /\ depth' = depth + 1
        /\ backend' = SyncBackend(backend, new_global_t, depth + 1)
        /\ swarm' = [swarm EXCEPT !.injected = @ + 1]
        /\ outcome' = [op |-> "update_global_with_swarm",
                       agent |-> swarm.swarm_name, expected |-> <<>>,
                       result |-> "ok"]
        /\ UNCHANGED <<history, snapshot_store, segment_id, last_snapshot_hash,
                       now, registry, scope, writer, sealVars, verdict>>

NextSwarm ==
    \/ \E a \in Leads : update_state(a)
    \/ \E a \in Leads : update_state_with_check(a)
    \/ \E n \in SwarmNames : OpenSwarm(n)
    \/ \E a \in SubTasks : track_sub_task(a)
    \/ update_global_with_swarm

SpecSwarm == InitClock /\ [][NextSwarm]_vars

\* A SnapshotAccumulator driven by update_state_with_check only, with a
\* swarm injected into it.
NextInject ==
    \/ \E a \in Leads : update_state_with_check(a)
    \/ \E n \in SwarmNames : OpenSwarm(n)
    \/ \E a \in SubTasks : track_sub_task(a)
    \/ update_global_with_swarm

SpecInject == InitClock /\ [][NextInject]_vars

(***************************************************************************)
(* The writer's calls statement by statement, for a reader that looks at   *)
(* the accumulator's fields between any two of them.  writer.before holds  *)
(* the fields as they were when the call began.                            *)
(***************************************************************************)

\* The fields a reader looks at.
Fields ==
    [current_T |-> current_T, depth |-> depth, segment_id |-> segment_id,
     last_snapshot_hash |-> last_snapshot_hash]

\* update_state_with_check(agent_id), the call of the engine
\* (core.py:115-120): the engine moves, the host's fields do not yet.
CallEngine(agent_id) ==
    LET r == update_with_snapshot(backend, agent_id, segment_id,
                                  last_snapshot_hash, Str(current_T))
    IN  /\ writer = Idle
        /\ backend' = r.backend
        /\ IF r.err # "ok"
           THEN /\ writer' = Idle
                /\ outcome' = [op |-> "update_state_with_check",
                               agent |-> agent_id,
                               expected |-> Str(current_T), result |-> r.err]
           ELSE /\ writer' = [pc |-> "current_T", agent |-> agent_id,
                              t |-> r.t, is_folded |-> r.is_folded,
                              block |-> r.block, before |-> Fields]
                /\ UNCHANGED outcome
        /\ UNCHANGED <<current_T, depth, history, snapshot_store, segment_id,
                       last_snapshot_hash, now, registry, scope, swarm,
                       sealVars, verdict>>

\* self.current_T = int(new_t_str)
AssignT ==
    /\ writer.pc = "current_T"
    /\ current_T' = ParseDecimal(writer.t)
    /\ writer' = [writer EXCEPT !.pc = "depth"]
    /\ UNCHANGED <<backend, depth, history, snapshot_store, segment_id,
                   last_snapshot_hash, outcome, now, registry, scope, swarm,
                   sealVars, verdict>>

\* self.depth = self._backend.get_depth()
AssignDepth ==
    /\ writer.pc = "depth"
    /\ depth' = get_depth(backend)
    /\ writer' = [writer EXCEPT !.pc = IF writer.is_folded THEN "store"
                                       ELSE "history"]
    /\ UNCHANGED <<backend, current_T, history, snapshot_store, segment_id,
                   last_snapshot_hash, outcome, now, registry, scope, swarm,
                   sealVars, verdict>>

\* The folded block is stamped, checked against last_snapshot_hash and
\* appended to the store; a block that fails the check ends the call.
StoreBlock ==
    LET block == [segment_id        |-> writer.block.segment_id,
                  final_t           |-> writer.block.final_t,
                  depth_at_snapshot |-> writer.block.depth_at_snapshot,
                  snapshot_hash     |-> writer.block.snapshot_hash,
                  prev_hash         |-> writer.block.prev_hash,
                  timestamp         |-> now]
    IN  /\ writer.pc = "store"
        /\ IF ChainCheckFails(block)
           THEN /\ writer' = Idle
                /\ outcome' = [op |-> "update_state_with_check",
                               agent |-> writer.agent,
                               expected |-> Str(writer.before.current_T),
                               result |-> "ChainIntegrity"]
                /\ UNCHANGED snapshot_store
           ELSE /\ writer' = [writer EXCEPT !.pc = "last_snapshot_hash",
                                            !.block = block]
                /\ snapshot_store' = Append(snapshot_store, block)
                /\ UNCHANGED outcome
        /\ UNCHANGED <<backend, current_T, depth, history, segment_id,
                       last_snapshot_hash, now, registry, scope, swarm,
                       sealVars, verdict>>

\* self.last_snapshot_hash = block["snapshot_hash"]
LinkBlock ==
    /\ writer.pc = "last_snapshot_hash"
    /\ last_snapshot_hash' = AcceptedHash(writer.block)
    /\ writer' = [writer EXCEPT !.pc = "segment_id"]
    /\ UNCHANGED <<backend, current_T, depth, history, snapshot_store,
                   segment_id, outcome, now, registry, scope, swarm, sealVars,
                   verdict>>

\* self.segment_id += 1
NextSegment ==
    /\ writer.pc = "segment_id"
    /\ segment_id' = segment_id + 1
    /\ writer' = [writer EXCEPT !.pc = "history"]
    /\ UNCHANGED <<backend, current_T, depth, history, snapshot_store,
                   last_snapshot_hash, outcome, now, registry, scope, swarm,
                   sealVars, verdict>>

\* self.history.append(...) and the return of update_state_with_check.
AppendHistory ==
    /\ writer.pc = "history"
    /\ history' = Append(history,
           [depth |-> depth, agent |-> writer.agent, T |-> current_T,
            folded |-> writer.is_folded, ops |-> get_op_count(backend)])
    /\ outcome' = [op |-> "update_state_with_check", agent |-> writer.agent,
                   expected |-> Str(writer.before.current_T),
                   result |-> "ok"]
    /\ writer' = Idle
    /\ UNCHANGED <<backend, current_T, depth, snapshot_store, segment_id,
                   last_snapshot_hash, now, registry, scope, swarm, sealVars,
                   verdict>>

\* update_global_with_swarm up to new_global_t (scopes.py:40-54): nothing
\* of the accumulator is assigned yet.
InjectCompute ==
    /\ writer = Idle
    /\ swarm # NoSwarm
    /\ swarm.injected = 0
    /\ writer' = [pc |-> "global_acc.current_T", agent |-> swarm.swarm_name,
                  new_global_t |-> InjectedT(current_T, depth,
                                             seal_and_export(swarm)),
                  is_folded |-> FALSE, before |-> Fields]
    /\ UNCHANGED <<accVars, outcome, now, registry, scope, swarm, sealVars,
                   verdict>>

\* global_acc.current_T = new_global_t
InjectT ==
    /\ writer.pc = "global_acc.current_T"
    /\ current_T' = writer.new_global_t
    /\ writer' = [writer EXCEPT !.pc = "global_acc.depth"]
    /\ UNCHANGED <<backend, depth, history, snapshot_store, segment_id,
                   last_snapshot_hash, outcome, now, registry, scope, swarm,
                   sealVars, verdict>>

\* global_acc.depth += 1
InjectDepth ==
    /\ writer.pc = "global_acc.depth"
    /\ depth' = depth + 1
    /\ writer' = [writer EXCEPT !.pc = "set_state"]
    /\ UNCHANGED <<backend, current_T, history, snapshot_store, segment_id,
                   last_snapshot_hash, outcome, now, registry, scope, swarm,
                   sealVars, verdict>>

\* global_acc._backend.set_state(str(new_global_t), global_acc.depth) and
\* the return of update_global_with_swarm.
InjectSync ==
    /\ writer.pc = "set_state"
    /\ backend' = SyncBackend(backend, writer.new_global_t, depth)
    /\ swarm' = [swarm EXCEPT !.injected = @ + 1]
    /\ outcome' = [op |-> "update_global_with_swarm", agent |-> writer.agent,
                   expected |-> <<>>, result |-> "ok"]
    /\ writer' = Idle
    /\ UNCHANGED <<current_T, depth, history, snapshot_store, segment_id,
                   last_snapshot_hash, now, registry, scope, sealVars,
                   verdict>>

\* One writer: a call begins when the one before it has returned.
NextSteps ==
    \/ \E a \in Leads : CallEngine(a)
    \/ AssignT
    \/ AssignDepth
    \/ StoreBlock
    \/ LinkBlock
    \/ NextSegment
    \/ AppendHistory
    \/ \E n \in SwarmNames : writer = Idle /\ OpenSwarm(n)
    \/ \E a \in SubTasks : writer = Idle /\ track_sub_task(a)
    \/ InjectCompute
    \/ InjectT
    \/ InjectDepth
    \/ InjectSync

SpecSteps == InitClock /\ [][NextSteps]_vars

(***************************************************************************)
(* Properties.                                                             *)
(***************************************************************************)

\* The link a stored block must carry: the hash of the block before it, or
\* the genesis link for the first.
LinkBefore(i) ==
    IF i = 1 THEN GenesisHash ELSE snapshot_store[i - 1].snapshot_hash

\* C1 (fold chaining): the stored blocks form a chain from the genesis link
\* (B_0.prev_hash = "0"*64, B_i.prev_hash = B_{i-1}.snapshot_hash), and the
\* host's last_snapshot_hash is always the hash of the last stored block, so
\* that a block is accepted only with prev_hash = last_snapshot_hash.
C1_FoldChaining ==
    /\ \A i \in 1..Len(snapshot_store) :
           snapshot_store[i].prev_hash = LinkBefore(i)
    /\ last_snapshot_hash = LinkBefore(Len(snapshot_store) + 1)

\* Two blocks stored, the second after a fold whose block was refused.
C1_Witness ==
    /\ Len(snapshot_store) >= 2
    /\ segment_id = 2

\* C2 (replay guard), on every call of the engine's update_state: a call
\* whose expected_prev_t is not the current T fails with StaleState and
\* leaves the engine unchanged; a call with the current T succeeds (while the
\* operation budget lasts); and the call that follows a successful call with
\* the same agent and the same expected_prev_t fails with StaleState.
C2_ReplayGuard ==
    [][outcome'.op = "engine.update_state" =>
        /\ (outcome'.expected # Str(backend.T)
               => outcome'.result = "StaleState" /\ backend' = backend)
        /\ (outcome'.expected = Str(backend.T) /\ backend.op_count + 2 <= MAX_OPS
               => outcome'.result = "ok" /\ backend' # backend)
        /\ ((outcome.op = "engine.update_state" /\ outcome.result = "ok"
                /\ outcome'.agent = outcome.agent
                /\ outcome'.expected = outcome.expected)
               => (outcome'.result = "StaleState" /\ backend' = backend))
    ]_vars

\* The first update from T_old = 2 succeeded and its replay was refused.
C2_Witness ==
    /\ outcome.op = "engine.update_state"
    /\ outcome.result = "StaleState"
    /\ outcome.expected = Str(2)
    /\ backend.op_count = 2

\* C10 (state unchanged on failure): a call that ends in an error leaves
\* (T, depth, segment_id, op_count, last_snapshot_hash) and the snapshot
\* store as they were.
C10_StateUnchangedOnFailure ==
    [][outcome'.result \notin {"ok", "none"} =>
        UNCHANGED <<current_T, depth, segment_id, last_snapshot_hash,
                    snapshot_store, backend>>
    ]_vars

\* The last verdict is that of StateSealer.verify on the envelope e.
Verified(e) == verdict.op = "verify" /\ verdict.envelope = e

\* C4 (envelope round-trip): verify(seal(state, metrics)) is true, for every
\* state and every metrics value, None and the empty map included.
C4_RoundTrip == Verified(sealed) => verdict.ok

\* A mapping payload sealed with the empty map, verified as sealed.
C4_Witness ==
    /\ Verified(sealed)
    /\ verdict.ok
    /\ sealed.body.metrics = PyDict(<<>>)
    /\ sealed.body.payload = PyDict(TwoItems)

\* The fields in which the verified envelope differs from the sealed one.
ChangedFields ==
    {f \in HeaderFields \cup BodyFields :
        FieldOf(verdict.envelope, f) # FieldOf(sealed, f)}

\* The text by which a field is bound into the seal: sorted-key JSON of a
\* mapping payload and the string form of any other, the JSON of a non-empty
\* metrics map and "{}" for None or an empty one, the string form of a header
\* field.  The seal itself is compared as a value.
AnchorText(env, f) ==
    CASE f = "payload" ->
             IF env.body.payload.ty = "dict"
             THEN json_dumps(env.body.payload, TRUE)
             ELSE py_str(env.body.payload)
      [] f = "metrics" ->
             IF Truthy(env.body.metrics)
             THEN json_dumps(env.body.metrics, FALSE)
             ELSE <<"{", "}">>
      [] f = "integrity_seal" -> <<>>
      [] OTHER -> py_str(env.header[f])

\* C5 as claimed (tamper detection): an envelope that differs from the sealed
\* one in one header or body field does not verify.
C5_AnyChangeDetected ==
    (verdict.op = "verify" /\ Cardinality(ChangedFields) = 1) => ~verdict.ok

\* C5 as amended: a change of one field is detected exactly when the field is
\* integrity_seal or the text the field contributes to the anchor differs.
C5_TextChangeDetected ==
    (verdict.op = "verify" /\ Cardinality(ChangedFields) = 1) =>
        LET f == CHOOSE g \in ChangedFields : TRUE
        IN  verdict.ok <=>
                (f # "integrity_seal"
                 /\ AnchorText(verdict.envelope, f) = AnchorText(sealed, f))

\* A payload changed from one text to another is refused.
C5_Witness ==
    /\ verdict.op = "verify"
    /\ ChangedFields = {"payload"}
    /\ sealed.body.payload = PyStr(<<"x">>)
    /\ verdict.envelope.body.payload = PyStr(<<"1">>)
    /\ ~verdict.ok


RECURSIVE Reverse(_)
Reverse(seq) == IF seq = <<>> THEN <<>> ELSE Append(Reverse(Tail(seq)), Head(seq))

RECURSIVE AddAll(_, _, _, _)
\* The scope after add_branch_result of each name of the list, in order.
AddAll(reg, s, names, t) ==
    IF names = <<>> THEN s
    ELSE LET r == register_agent(reg, Head(names), t)
         IN  AddAll(r.registry,
                    [s EXCEPT !.branch_factors = Append(@, r.p),
                              !.names = Append(@, Head(names))],
                    Tail(names), t)

\* merge(T_b, d_b, L): a scope on the base, the names of L added in order,
\* merged.
MergeOf(base_t, base_depth, names) ==
    merge(AddAll(NewRegistry, NewScope(base_t, base_depth), names, Epoch))

Distinct(seq) == \A i, j \in 1..Len(seq) : i # j => seq[i] # seq[j]

\* C3 (ordering sensitivity of ParallelScope): a merge of at least two
\* distinct names added in order L yields a T_final different from the merge
\* of the same base with the names added in order reverse(L), and both
\* return depth d_b + 1.
C3_OrderSensitive ==
    (/\ verdict.op = "merge"
     /\ Len(verdict.names) >= 2
     /\ Distinct(verdict.names))
    => LET rev == MergeOf(verdict.base_t, verdict.base_depth,
                          Reverse(verdict.names))
       IN  /\ verdict.t # rev.t
           /\ verdict.depth = verdict.base_depth + 1
           /\ rev.depth = verdict.base_depth + 1

\* The log entries of the one-second window that ends now.
InWindow == {e \in registry.request_log : now - e.t < 1 * TicksPerSecond}

\* C7 (rate-limit safety): only new ids are registered, so every entry of the
\* request log is a prime derived for a new id; no window of one second
\* holds more than 100 of them: of 101 new ids presented within a second at
\* least one is refused.
C7_RateLimitSafety == Cardinality(InWindow) <= 100

\* The modular exponentiations of a replay: two per witness.
ReplayOps(witness) == 2 * Len(witness)

\* C6 (ops integrity on verification): verify_path given a header accepts
\* only if the exponentiations of its replay equal header.ops.
C6_OpsIntegrity ==
    (/\ verdict.op = "verify_path"
     /\ verdict.header.present
     /\ verdict.ok)
    => ReplayOps(verdict.witness) = verdict.header.ops

\* The distance between the time of verification and the header's timestamp.
DriftOf(v) ==
    IF v.now >= v.header.timestamp
    THEN v.now - v.header.timestamp
    ELSE v.header.timestamp - v.now

\* C8 (timestamp drift): verify_path given a header rejects with
\* TimestampDrift whenever the header's timestamp is more than 300 seconds
\* from now, whatever the witness list replays to, and never rejects for
\* drift when it is within 300 seconds.
C8_TimestampDrift ==
    (verdict.op = "verify_path" /\ verdict.header.present)
    => /\ (DriftOf(verdict) > 300 * TicksPerSecond)
          => (~verdict.ok /\ verdict.reason = "TimestampDrift")
       /\ (DriftOf(verdict) <= 300 * TicksPerSecond)
          => verdict.reason # "TimestampDrift"

\* A header stamped 400 seconds before the verification was rejected for
\* drift, the target being the accumulator's trace of the witness list.
C8_Witness ==
    /\ verdict.op = "verify_path"
    /\ verdict.header.present
    /\ verdict.header.timestamp = verdict.now - 400 * TicksPerSecond
    /\ verdict.witness = WitnessOf(history)
    /\ Len(verdict.witness) >= 1
    /\ verdict.target_t = current_T
    /\ ~verdict.ok
    /\ verdict.reason = "TimestampDrift"

\* C9 (verifier reconstruction): verify_path(final T, the agents driven
\* through the accumulator, a header stamped now with the accumulator's op
\* count) returns true, folds included.
C9_Reconstruction ==
    (/\ verdict.op = "verify_path"
     /\ verdict.witness = WitnessOf(history)
     /\ verdict.target_t = current_T
     /\ verdict.header.present
     /\ verdict.header.timestamp = verdict.now
     /\ verdict.header.ops = op_count)
    => verdict.ok


\* The history holds snapshotting updates only (entries of
\* update_state_with_check carry the field folded).
SnapshottingOnly == \A i \in 1..Len(history) : "folded" \in DOMAIN history[i]

\* C11 (fold schedule): after k >= 1 successful snapshotting updates from the
\* initial state, floor((k-1)/MAX_DEPTH) blocks have been emitted, segment_id
\* is that number, depth is ((k-1) mod MAX_DEPTH) + 1, and the i-th block
\* (from 0) has segment_id i and depth_at_snapshot MAX_DEPTH.
C11_FoldSchedule ==
    (Len(history) >= 1 /\ SnapshottingOnly)
    => LET k == Len(history)
       IN  /\ Len(snapshot_store) = (k - 1) \div MAX_DEPTH
           /\ segment_id = (k - 1) \div MAX_DEPTH
           /\ depth = ((k - 1) % MAX_DEPTH) + 1
           /\ \A i \in 1..Len(snapshot_store) :
                  /\ snapshot_store[i].segment_id = i - 1
                  /\ snapshot_store[i].depth_at_snapshot = MAX_DEPTH

\* MAX_DEPTH + 1 snapshotting updates have emitted one block.
C11_Witness ==
    /\ SnapshottingOnly
    /\ Len(history) = MAX_DEPTH + 1
    /\ Len(snapshot_store) = 1
    /\ snapshot_store[1].segment_id = 0
    /\ depth = 1
    /\ segment_id = 1


\* A step of update_global_with_swarm.
InjectionStep == outcome'.op = "update_global_with_swarm" /\ depth' # depth

\* C12 (swarm injection result): for a parent at (T_g, d_g) and a swarm that
\* tracked n sub-tasks, seal_and_export reports complexity n and the
\* injection sets the parent to
\* T_g' = (T_g^swarm_prime * G^(work_proof + d_g + n)) mod M, d_g' = d_g + 1,
\* with work_proof = SHA256(swarm_name ":" local_T ":" local_depth).
C12_SwarmInjection ==
    [][InjectionStep =>
         LET n          == Len(swarm.tracked)
             work_proof == DigestInt(swarm.swarm_name \o <<":">>
                                     \o Format(swarm.backend.T, 10) \o <<":">>
                                     \o Format(n, 10))
             p          == hash_to_prime(swarm.swarm_name)
         IN  /\ seal_and_export(swarm).complexity = n
             /\ current_T' = (PowMod(current_T, p, M)
                              * PowMod(G, work_proof + depth + n, M)) % M
             /\ depth' = depth + 1]_vars

\* A swarm that tracked two sub-tasks has been injected into a parent that
\* had made two updates of its own.
C12_Witness ==
    /\ outcome.op = "update_global_with_swarm"
    /\ Len(swarm.tracked) = 2
    /\ swarm.injected = 1
    /\ Len(history) = 2
    /\ depth = 3

\* C14 (depth bound): 0 <= depth <= MAX_DEPTH in every reachable state,
\* injections at depth = MAX_DEPTH included.
C14_DepthBound == 0 <= depth /\ depth <= MAX_DEPTH

\* C18 (ops accounting): op_count never decreases, never exceeds MAX_OPS,
\* and equals 2 * (k + j) after k successful updates and j successful
\* injections.
C18_OpsAccounting ==
    [][/\ op_count' >= op_count
       /\ op_count' <= MAX_OPS
       /\ op_count' = 2 * (Len(history') + swarm'.injected)]_vars

\* The operations that change the accumulator.
AccumulatorOps ==
    {"update_state", "update_state_with_check", "update_global_with_swarm"}

\* C19 (host/engine agreement): after every successful update_state,
\* update_state_with_check or update_global_with_swarm the host's
\* (current_T, depth) is the engine's (T, depth), and an update issued right
\* after one of them does not fail with StaleState.
C19_HostEngineAgreement ==
    [][/\ (outcome'.op \in AccumulatorOps /\ outcome'.result = "ok")
          => (current_T' = backend'.T /\ depth' = get_depth(backend'))
       /\ (/\ outcome.op \in AccumulatorOps
           /\ outcome.result = "ok"
           /\ outcome'.op \in {"update_state", "update_state_with_check"}
           /\ outcome' # outcome)
          => outcome'.result # "StaleState"]_vars

\* An update made right after an injection succeeded.
C19_Witness ==
    /\ outcome.op \in {"update_state", "update_state_with_check"}
    /\ outcome.result = "ok"
    /\ swarm.injected = 1
    /\ Len(history) >= 1
    /\ depth = history[Len(history)].depth
    /\ depth >= 2
    /\ current_T = backend.T


\* A call of verify_path has returned.
Returns == verdict.op = "verify_path" /\ verdict.pc = "done"

C20_VerdictReason ==
    verdict.op = "verify_path"
    => ((verdict.reason = "Verification Passed") <=> verdict.ok)


\* C13 (determinism): two replays of one witness list from (T = 2,
\* depth = 0, op_count = 0) on the same registry end with the same T, depth
\* and op_count, whatever lookups the registry served before and between
\* them.
C13_Determinism ==
    [][(/\ verdict.op = "replay"
        /\ verdict'.op = "replay"
        /\ verdict'.witness = verdict.witness)
       => /\ verdict'.reason = verdict.reason
          /\ verdict'.simulated_t = verdict.simulated_t
          /\ verdict'.simulated_depth = verdict.simulated_depth
          /\ verdict'.ops_counter = verdict.ops_counter]_vars

\* C17 (cache hits bypass the rate limiter): register_agent for an id in the
\* cache returns the cached prime and never fails with RateLimited, whatever
\* the number of requests in the window.
C17_CacheHitBypass ==
    outcome.op = "register_agent (cached)"
    => /\ outcome.result # "RateLimited"
       /\ \E c \in registry.cache : c.id = outcome.agent /\ c.p = outcome.p

\* What a reader between two statements of a call may not see: the depth
\* already changed while T is the old value.
DepthAheadOfT ==
    /\ depth # writer.before.depth
    /\ current_T = writer.before.current_T

\* What a reader between two statements of a folding call may not see: the
\* trace or the depth of after the fold while segment_id and
\* last_snapshot_hash are those of before it.
FoldHalfDone ==
    /\ writer.is_folded
    /\ current_T # writer.before.current_T \/ depth # writer.before.depth
    /\ segment_id = writer.before.segment_id
    /\ last_snapshot_hash = writer.before.last_snapshot_hash

\* C15 (indivisible transition): a reader that looks at the accumulator's
\* fields between two steps of the writer never sees depth incremented
\* while T is still the old value, nor the reseeded T or the reset depth of
\* a fold while segment_id and last_snapshot_hash are the pre-fold ones.
C15_IndivisibleTransition ==
    writer # Idle => ~DepthAheadOfT /\ ~FoldHalfDone

=============================================================================
